---- MODULE Spec2Model ----
(***************************************************************************)
(* Model of the Kdenlive (MLT) XML adapter of OpenTimelineIO,              *)
(* contrib/opentimelineio_contrib/adapters/kdenlive.py.                    *)
(*                                                                         *)
(* Representation.                                                         *)
(*  - A Python str is a tuple of characters (<<"1", "5">> is "15"); ids,   *)
(*    urls and other texts whose inside is only compared are tuples of     *)
(*    larger pieces (<<"producer", 0>> is "producer0").                    *)
(*  - Python's None is the value None; an exception that leaves a function *)
(*    is the record [raised |-> <its class name>].                         *)
(*  - A float that counts frames is an integer number of thousandths       *)
(*    (15250 is 15.25); a frame rate is the exact fraction [num, den].     *)
(*  - An XML element is [tag, attrs, props, kids]: attrs its attributes,   *)
(*    props its <property name=..> children, kids its other children.      *)
(***************************************************************************)
EXTENDS Integers, Sequences, FiniteSets, TLC

VARIABLES
    pc,          \* where the call in progress stands
    clock,       \* time(): its first argument
    fps,         \* the frame rate: an argument, or read from the profile
    kfstring,    \* keyframes(): its first argument
    timeline,    \* write_to_string(): its argument
    media_prod,  \* write_to_string(): the library, resource -> producer
    resource,    \* write_to_string(): the local variable of that name
    xml,         \* the document: the mlt element written, or to be read
    result       \* what the call returned: a value, or an exception

vars == <<pc, clock, fps, kfstring, timeline, media_prod, resource, xml, result>>

(***************************************************************************)
(* Bounds of the inputs.                                                   *)
(***************************************************************************)
MaxHours == 2
MaxKfLen == 5
MaxTracks == 2
MaxItems == 2
MaxTransitions == 2

(***************************************************************************)
(* Python values.                                                          *)
(***************************************************************************)
None == <<"None">>

Unused == [unused |-> TRUE]

Raise(cls) == [raised |-> cls]

IsExc(r) == "raised" \in DOMAIN r

\* What follows a value that may be an exception: the exception itself, or
\* F of the value.
Then(x, F(_)) == IF IsExc(x) THEN x ELSE F(x)

Digits == {"0", "1", "2", "3", "4", "5", "6", "7", "8", "9"}

DigitChar == <<"0", "1", "2", "3", "4", "5", "6", "7", "8", "9">>

DigitVal(c) == CHOOSE d \in 0..9 : DigitChar[d + 1] = c

\* str(n) of an int n >= 0.
RECURSIVE str(_)
str(n) == IF n < 10 THEN <<DigitChar[n + 1]>>
          ELSE str(n \div 10) \o <<DigitChar[(n % 10) + 1]>>

\* int(x) of a float x >= 0 held in thousandths: truncation.
int(x) == x \div 1000

\* s.replace(old, new) for single characters.
Replace(s, old, new) == [i \in 1..Len(s) |-> IF s[i] = old THEN new ELSE s[i]]

\* s.split(sep) for a single character sep: "" splits into [""].
RECURSIVE Split(_, _)
Split(s, sep) ==
    IF \A i \in 1..Len(s) : s[i] # sep THEN <<s>>
    ELSE LET p == CHOOSE i \in 1..Len(s) :
                      s[i] = sep /\ \A j \in 1..(i - 1) : s[j] # sep
         IN <<SubSeq(s, 1, p - 1)>> \o Split(SubSeq(s, p + 1, Len(s)), sep)

RECURSIVE IntOf(_)
IntOf(ds) == IF Len(ds) = 0 THEN 0
             ELSE IntOf(SubSeq(ds, 1, Len(ds) - 1)) * 10 + DigitVal(ds[Len(ds)])

\* The weight, in thousandths, of the i-th digit after the point; the model
\* holds no finer float, so a fourth digit has no weight to take.
FracWeight == <<100, 10, 1>>

RECURSIVE FracOf(_, _)
FracOf(ds, i) == IF i > Len(ds) THEN 0
                 ELSE DigitVal(ds[i]) * FracWeight[i] + FracOf(ds, i + 1)

\* float(s) for s over digits and '.': [v |-> thousandths], or ValueError for
\* the empty string, a lone point, two points or any other character.
float(s) ==
    LET dots == {i \in 1..Len(s) : s[i] = "."}
        ok == /\ \A i \in 1..Len(s) : s[i] \in Digits \cup {"."}
              /\ Cardinality(dots) <= 1
              /\ Len(s) - Cardinality(dots) >= 1
    IN IF ~ok THEN Raise("ValueError")
       ELSE LET p == IF dots = {} THEN Len(s) + 1 ELSE CHOOSE i \in dots : TRUE
            IN [v |-> IntOf(SubSeq(s, 1, p - 1)) * 1000
                      + FracOf(SubSeq(s, p + 1, Len(s)), 1)]

(***************************************************************************)
(* otio.opentime.RationalTime and the exact arithmetic of time().          *)
(***************************************************************************)
Rate(num, den) == [num |-> num, den |-> den]

RationalTime(value, rate) == [value |-> value, rate |-> rate]

\* a - b and a + b of two RationalTime of one rate.
RtSub(a, b) == RationalTime(a.value - b.value, a.rate)

RtAdd(a, b) == RationalTime(a.value + b.value, a.rate)

TimeRange(start_time, duration) == [start_time |-> start_time, duration |-> duration]

\* x * m for x in thousandths and the multiplier m a fraction: the exact
\* product whole + rem/m.den thousandths, computed without a wide product.
Times(x, m) ==
    LET q == m.num \div m.den
        r == m.num % m.den
    IN [whole |-> x * q + (x * r) \div m.den, rem |-> (x * r) % m.den]

\* f + t of two such sums over the denominator den.
Plus(f, t, den) ==
    [whole |-> f.whole + t.whole + (f.rem + t.rem) \div den,
     rem |-> (f.rem + t.rem) % den]

\* round(f, 3): to the nearest thousandth, a tie to the even one.
round3(f, den) ==
    f.whole + (IF 2 * f.rem > den THEN 1
               ELSE IF 2 * f.rem = den THEN f.whole % 2
               ELSE 0)

\* for x in reversed(hms): f = f + x * m; m = m * 60
RECURSIVE timeLoop(_, _, _)
timeLoop(hms, i, m) ==
    IF i = 0 THEN [whole |-> 0, rem |-> 0]
    ELSE Plus(Times(hms[i].v, m),
              timeLoop(hms, i - 1, Rate(m.num * 60, m.den)),
              m.den)

\* A faulty variant, which C6 rules out: the multiplier starts at the rate even
\* when the string holds no ':'.
TimeStartAlwaysRate(hms, rate) == rate

TimeStart(hms, rate) == IF Len(hms) > 1 THEN rate ELSE Rate(1, 1)

time(clk, rate) ==
    IF clk = None THEN Raise("AttributeError")
    ELSE LET fields == Split(Replace(clk, ",", "."), ":")
             hms == [i \in 1..Len(fields) |-> float(fields[i])]
         IN IF \E i \in 1..Len(hms) : IsExc(hms[i]) THEN Raise("ValueError")
            ELSE LET m == TimeStart(hms, rate)
                 IN RationalTime(round3(timeLoop(hms, Len(hms), m), m.den), rate)

(***************************************************************************)
(* keyframes(): re.findall over kfstring of the pattern                    *)
(*   group 1: any run without | ~ = ;   then an optional | or ~   then =   *)
(*   group 2: any run without ;                                            *)
(***************************************************************************)
\* The first index >= p of s holding a character of stop, or Len(s) + 1.
RECURSIVE RunEnd(_, _, _)
RunEnd(s, p, stop) ==
    IF p > Len(s) \/ s[p] \in stop THEN p ELSE RunEnd(s, p + 1, stop)

\* A faulty variant, which C7 rules out: the optional | or ~ before = is not
\* taken.
MatchAtPlainEquals(s, p) ==
    LET q == RunEnd(s, p, {"|", "~", "=", ";"})
        r == RunEnd(s, q + 1, {";"})
    IN IF q <= Len(s) /\ s[q] = "="
       THEN [at |-> TRUE, t |-> SubSeq(s, p, q - 1),
             v |-> SubSeq(s, q + 1, r - 1), end |-> r]
       ELSE [at |-> FALSE]

\* One attempt of the pattern at p.  Group 1 is greedy and must stop before
\* the first of | ~ = ; and a shorter group 1 would leave a character that
\* neither [|~]? nor = takes, so the only candidate is the whole run.
\* [at |-> TRUE, t, v, end] with end the index after the match, or
\* [at |-> FALSE].
MatchAt(s, p) ==
    LET q == RunEnd(s, p, {"|", "~", "=", ";"})
        e == IF q <= Len(s) /\ s[q] = "=" THEN q
             ELSE IF /\ q + 1 <= Len(s)
                     /\ s[q] \in {"|", "~"}
                     /\ s[q + 1] = "=" THEN q + 1
             ELSE 0
        r == RunEnd(s, e + 1, {";"})
    IN IF e = 0 THEN [at |-> FALSE]
       ELSE [at |-> TRUE, t |-> SubSeq(s, p, q - 1),
             v |-> SubSeq(s, e + 1, r - 1), end |-> r]

\* re.findall: the matches from left to right, each search starting where
\* the previous match ended.
RECURSIVE findall(_, _)
findall(s, p) ==
    IF p > Len(s) THEN <<>>
    ELSE LET m == MatchAt(s, p)
         IN IF m.at THEN <<[t |-> m.t, v |-> m.v]>> \o findall(s, m.end)
            ELSE findall(s, p + 1)

\* dict(pairs): a key met again keeps its place and takes the new value.
RECURSIVE dict(_)
dict(pairs) ==
    IF Len(pairs) = 0 THEN <<>>
    ELSE LET d == dict(SubSeq(pairs, 1, Len(pairs) - 1))
             kv == pairs[Len(pairs)]
         IN IF \E i \in 1..Len(d) : d[i].key = kv.key
            THEN [i \in 1..Len(d) |-> IF d[i].key = kv.key THEN kv ELSE d[i]]
            ELSE Append(d, kv)

KeyframePairs(found, rate) ==
    [i \in 1..Len(found) |-> [key |-> time(found[i].t, rate), value |-> found[i].v]]

keyframes(kfs, rate) ==
    IF kfs = None THEN Raise("TypeError")
    ELSE LET pairs == KeyframePairs(findall(kfs, 1), rate)
         IN IF \E i \in 1..Len(pairs) : IsExc(pairs[i].key)
            THEN Raise("ValueError")
            ELSE [dict |-> dict(pairs)]

(***************************************************************************)
(* xml.etree.ElementTree elements.                                         *)
(***************************************************************************)
\* A text that is only compared, never read character by character.
T(s) == <<s>>

\* An object reference that is None.
NoneObj == [none |-> TRUE]

IsNoneObj(x) == "none" \in DOMAIN x

\* bool(x) of a text or None.
Truthy(x) == x # None /\ x # <<>>

Elem(tag, attrs, props, kids) ==
    [tag |-> tag, attrs |-> attrs, props |-> props, kids |-> kids]

\* element.get(name)
Attr(e, name) == IF name \in DOMAIN e.attrs THEN e.attrs[name] ELSE None

\* element.findall(tag): the children with that tag, in document order.
FindAll(e, tag) == SelectSeq(e.kids, LAMBDA k : k.tag = tag)

\* element.findtext("property[@name='{name}']"): the text of the first such
\* child, None when there is none.
mlt_property(element, name) ==
    IF name \in DOMAIN element.props THEN element.props[name] ELSE None

\* A property element is appended; one of that name already there stays the
\* first.  A text of None is read back as "".
add_property(element, name, value) ==
    [element EXCEPT
        !.props = @ @@ (name :> (IF value = None THEN <<>> ELSE value))]

SubElement(parent, child) == [parent EXCEPT !.kids = Append(@, child)]

(***************************************************************************)
(* The otio.schema objects, by their public shape.                         *)
(***************************************************************************)
ExternalReference(target_url, available_range) ==
    [type |-> "ExternalReference", target_url |-> target_url,
     available_range |-> available_range]

GeneratorReference(generator_kind, parameters, available_range) ==
    [type |-> "GeneratorReference", generator_kind |-> generator_kind,
     parameters |-> parameters, available_range |-> available_range]

MissingReference == [type |-> "MissingReference"]

Effect(effect_name, metadata) ==
    [type |-> "Effect", effect_name |-> effect_name, metadata |-> metadata]

Clip(name, source_range, media_reference, effects) ==
    [type |-> "Clip", name |-> name, source_range |-> source_range,
     media_reference |-> media_reference, effects |-> effects]

Gap(duration) == [type |-> "Gap", duration |-> duration]

Transition(transition_type, in_offset, out_offset) ==
    [type |-> "Transition", transition_type |-> transition_type,
     in_offset |-> in_offset, out_offset |-> out_offset]

Track(name, kind, items) == [name |-> name, kind |-> kind, items |-> items]

Timeline(name, tracks) == [name |-> name, tracks |-> tracks]

\* timeline.each_clip(): the clips of all tracks, track by track.
RECURSIVE each_clip(_, _)
each_clip(tracks, i) ==
    IF i > Len(tracks) THEN <<>>
    ELSE SelectSeq(tracks[i].items, LAMBDA it : it.type = "Clip")
         \o each_clip(tracks, i + 1)

\* The rate of timeline.duration(): that of the items' times, all of one
\* rate, and 1 for a timeline without a gap or a clip.
DurationRate(tl) ==
    LET timed == UNION {{<<i, j>> : j \in {k \in 1..Len(tl.tracks[i].items) :
                            tl.tracks[i].items[k].type \in {"Gap", "Clip"}}} :
                        i \in 1..Len(tl.tracks)}
    IN IF timed = {} THEN Rate(1, 1)
       ELSE LET p == CHOOSE p \in timed : TRUE
                it == tl.tracks[p[1]].items[p[2]]
            IN IF it.type = "Gap" THEN it.duration.rate
               ELSE it.source_range.duration.rate

(***************************************************************************)
(* write_to_string().                                                      *)
(***************************************************************************)
\* a / d to the nearest integer, a tie to the even one.
RoundDiv(a, d) ==
    LET q == a \div d
        r == a % d
    IN IF 2 * r > d THEN q + 1
       ELSE IF 2 * r = d THEN q + (q % 2)
       ELSE q

\* A faulty variant, which C5 rules out: the fallback rounds instead of
\* truncating.
RateRatioRounded(rate) ==
    LET r2 == RoundDiv(rate.num * 100, rate.den)
    IN CASE r2 = 2398 -> <<24000, 1001>>
         [] r2 = 2997 -> <<30000, 1001>>
         [] r2 = 5994 -> <<60000, 1001>>
         [] OTHER -> <<RoundDiv(rate.num, rate.den), 1>>

\* {23.98: .., 29.97: .., 59.94: ..}.get(round(float(rate), 2), (int(rate), 1))
RateRatio(rate) ==
    LET r2 == RoundDiv(rate.num * 100, rate.den)
    IN CASE r2 = 2398 -> <<24000, 1001>>
         [] r2 = 2997 -> <<30000, 1001>>
         [] r2 = 5994 -> <<60000, 1001>>
         [] OTHER -> <<rate.num \div rate.den, 1>>

Profile(rate) ==
    Elem("profile",
         [description |-> <<"HD 1080p ", rate, " fps">>,
          frame_rate_num |-> str(RateRatio(rate)[1]),
          frame_rate_den |-> str(RateRatio(rate)[2]),
          width |-> T("1920"), height |-> T("1080"),
          display_aspect_num |-> T("16"), display_aspect_den |-> T("9"),
          sample_aspect_num |-> T("1"), sample_aspect_den |-> T("1"),
          colorspace |-> T("709"), progressive |-> T("1")],
         <<>>, <<>>)

\* os.path.splitext(resource)[1].lower(): a url is <<stem, extension>>, or
\* <<stem>> without extension, or "".
SplitExtLower(url) ==
    IF Len(url) < 2 THEN ""
    ELSE CASE url[2] = ".PNG" -> ".png"
           [] url[2] = ".JPG" -> ".jpg"
           [] OTHER -> url[2]

MediaService(ref) ==
    IF ref.type = "ExternalReference"
    THEN IF SplitExtLower(ref.target_url) \in {".png", ".jpg", ".jpeg"}
         THEN T("qimage") ELSE T("avformat")
    ELSE IF ref.type = "GeneratorReference" /\ ref.generator_kind = "SolidColor"
    THEN T("color")
    ELSE None

MediaResource(ref) ==
    IF ref.type = "ExternalReference" THEN ref.target_url
    ELSE IF ref.type = "GeneratorReference" /\ ref.generator_kind = "SolidColor"
    THEN ref.parameters.color
    ELSE None

\* resource in media_prod.keys()
InLibrary(prods, res) ==
    \E i \in 1..Len(prods) : prods[i].key = res

\* media_prod[resource].attrib["id"]
LibraryId(prods, res) ==
    prods[CHOOSE i \in 1..Len(prods) : prods[i].key = res].id

\* A faulty variant, which C1 rules out: a resource already in the library
\* gets a producer again.
LibrarySkipNoDedup(prods, service, res) ==
    ~(Truthy(service) /\ Truthy(res))

\* if not (service and resource) or (resource in media_prod.keys()): continue
LibrarySkip(prods, service, res) ==
    ~(Truthy(service) /\ Truthy(res)) \/ InLibrary(prods, res)

\* One pass of the loop that builds the media library.  lib holds the
\* producers added to mlt, the entries of main_bin, media_prod, and the
\* value the variable resource is left with.
LibraryStep(lib, clip) ==
    LET ref == clip.media_reference
        service == MediaService(ref)
        res == MediaResource(ref)
        id == <<"producer", Len(lib.media_prod)>>
    IN IF LibrarySkip(lib.media_prod, service, res)
       THEN [lib EXCEPT !.resource = res]
       ELSE IF IsNoneObj(ref.available_range) THEN Raise("AttributeError")
       ELSE LET ar == ref.available_range
                p0 == Elem("producer",
                           [id |-> id,
                            in |-> str(int(ar.start_time.value)),
                            out |-> str(int(RtAdd(ar.start_time, ar.duration).value))],
                           <<>>, <<>>)
                p1 == add_property(add_property(p0, "mlt_service", service),
                                   "resource", res)
                p2 == IF Truthy(clip.name)
                      THEN add_property(p1, "kdenlive:clipname", clip.name)
                      ELSE p1
            IN [producers |-> Append(lib.producers, p2),
                bin |-> Append(lib.bin, Elem("entry", [producer |-> id], <<>>, <<>>)),
                media_prod |-> Append(lib.media_prod, [key |-> res, id |-> id]),
                resource |-> res]

RECURSIVE Library(_, _)
Library(clips, n) ==
    IF n = 0
    THEN [producers |-> <<>>, bin |-> <<>>, media_prod |-> <<>>, resource |-> None]
    ELSE LET lib == Library(clips, n - 1)
         IN IF IsExc(lib) THEN lib ELSE LibraryStep(lib, clips[n])

\* A faulty variant, which C3 rules out: the entry of a missing reference
\* looks its resource up like any other.
EntryProducerAlwaysLooksUp(prods, res, ref) ==
    IF InLibrary(prods, res)
    THEN [id |-> LibraryId(prods, res)]
    ELSE Raise("KeyError")

\* The producer a clip's entry names, [id |-> ..], or the KeyError of the
\* lookup in media_prod.
EntryProducer(prods, res, ref) ==
    IF ref.type # "MissingReference"
    THEN IF InLibrary(prods, res)
         THEN [id |-> LibraryId(prods, res)]
         ELSE Raise("KeyError")
    ELSE [id |-> T("unsupported")]

\* The value of the variable resource after the three tests of a clip: a
\* reference that is none of the three kinds leaves it as it was.
ItemResource(res, ref) ==
    IF ref.type = "ExternalReference" THEN ref.target_url
    ELSE IF ref.type = "GeneratorReference" /\ ref.generator_kind = "SolidColor"
    THEN ref.parameters.color
    ELSE IF ref.type = "MissingReference" THEN T("unhandled_type")
    ELSE res

\* One item of a track.  st holds the children of the track's first playlist
\* and the variable resource.
ItemStep(prods, st, item) ==
    IF item.type = "Gap"
    THEN [st EXCEPT !.kids = Append(@,
              Elem("blank", [length |-> str(int(item.duration.value))],
                   <<>>, <<>>))]
    ELSE IF item.type = "Clip"
    THEN LET res == ItemResource(st.resource, item.media_reference)
             producer == EntryProducer(prods, res, item.media_reference)
             sr == item.source_range
         IN IF IsExc(producer) THEN producer
            ELSE [kids |-> Append(st.kids,
                      Elem("entry",
                           [producer |-> producer.id,
                            in |-> str(int(sr.start_time.value)),
                            out |-> str(int(RtAdd(sr.duration, sr.start_time).value))],
                           <<>>, <<>>)),
                  resource |-> res]
    ELSE st

RECURSIVE Items(_, _, _, _)
Items(prods, res, items, n) ==
    IF n = 0 THEN [kids |-> <<>>, resource |-> res]
    ELSE LET st == Items(prods, res, items, n - 1)
         IN IF IsExc(st) THEN st ELSE ItemStep(prods, st, items[n])

\* One track: its two playlists and its subtractor, added to mlt, and its
\* track element in the main tractor.
TrackStep(prods, st, track) ==
    LET n == st.track_count + 1
        hide == IF track.kind = "Video" THEN T("audio") ELSE T("video")
        audio == track.kind = "Audio"
        mark(e) == IF audio THEN add_property(e, "kdenlive:audio_track", T("1"))
                   ELSE e
        items == Items(prods, st.resource, track.items, Len(track.items))
        subtractor ==
            mark(Elem("tractor", [id |-> <<"tractor", n>>],
                      ("kdenlive:track_name" :>
                          (IF track.name = None THEN <<>> ELSE track.name)),
                      <<Elem("track", [producer |-> <<"playlist", n, 1>>,
                                       hide |-> hide], <<>>, <<>>),
                        Elem("track", [producer |-> <<"playlist", n, 2>>,
                                       hide |-> hide], <<>>, <<>>)>>))
    IN IF IsExc(items) THEN items
       ELSE [kids |-> st.kids \o
                 <<mark(Elem("playlist", [id |-> <<"playlist", n, 1>>],
                             <<>>, items.kids)),
                   mark(Elem("playlist", [id |-> <<"playlist", n, 2>>],
                             <<>>, <<>>)),
                   subtractor>>,
             tracks |-> Append(st.tracks,
                 Elem("track", [producer |-> <<"tractor", n>>], <<>>, <<>>)),
             resource |-> items.resource,
             track_count |-> n]

RECURSIVE Tracks(_, _, _, _)
Tracks(prods, res, tracks, n) ==
    IF n = 0
    THEN [kids |-> <<>>,
          tracks |-> <<Elem("track", [producer |-> T("black_track")], <<>>, <<>>)>>,
          resource |-> res, track_count |-> 0]
    ELSE LET st == Tracks(prods, res, tracks, n - 1)
         IN IF IsExc(st) THEN st ELSE TrackStep(prods, st, tracks[n])

UnsupportedProducer ==
    Elem("producer", [id |-> T("unsupported")],
         [mlt_service |-> T("qtext"), family |-> T("Courier"),
          fgcolour |-> T("#ff808080"), bgcolour |-> T("#00000000"),
          text |-> T("Unsupported clip type")]
         @@ ("kdenlive:clipname" :> T("Unsupported clip type")),
         <<>>)

BlackProducer ==
    Elem("producer", [id |-> T("black_track")],
         [resource |-> T("black"), mlt_service |-> T("color")], <<>>)

MainBin(entries) ==
    Elem("playlist", [id |-> T("main_bin")],
         [xml_retain |-> T("1")]
         @@ ("kdenlive:docproperties.decimalPoint" :> T("."))
         @@ ("kdenlive:docproperties.version" :> T("0.98")),
         Append(entries, Elem("entry", [producer |-> T("unsupported")], <<>>, <<>>)))

\* The first part of write_to_string, up to the black_track producer: the
\* mlt element so far with the locals media_prod and resource, or the
\* exception that leaves it.
WriteHead(tl) ==
    LET clips == each_clip(tl.tracks, 1)
        lib == Library(clips, Len(clips))
    IN IF IsExc(lib) THEN lib
       ELSE [mlt |-> Elem("mlt",
                          [version |-> T("6.16.0"), title |-> tl.name,
                           LC_NUMERIC |-> T("en_US.UTF-8"),
                           producer |-> T("main_bin")],
                          <<>>,
                          <<Profile(DurationRate(tl))>>
                          \o lib.producers
                          \o <<UnsupportedProducer, MainBin(lib.bin), BlackProducer>>),
             media_prod |-> lib.media_prod,
             resource |-> lib.resource]

\* The second part, the loop over the tracks: the mlt element that is
\* serialized with the last value of resource, or the exception.
WriteBody(tl, mlt, prods, res) ==
    LET done == Tracks(prods, res, tl.tracks, Len(tl.tracks))
    IN IF IsExc(done) THEN done
       ELSE [mlt |-> [mlt EXCEPT !.kids = @ \o done.kids
                         \o <<Elem("tractor", [global_feed |-> T("1")],
                                   <<>>, done.tracks)>>],
             resource |-> done.resource]

\* The mlt element that write_to_string serializes, or the exception that
\* leaves it.
write_to_string(tl) ==
    LET head == WriteHead(tl)
    IN IF IsExc(head) THEN head
       ELSE LET body == WriteBody(tl, head.mlt, head.media_prod, head.resource)
            IN IF IsExc(body) THEN body ELSE body.mlt

(***************************************************************************)
(* read_from_string().                                                     *)
(***************************************************************************)
\* element.iter(): the element and its descendants, in document order.
RECURSIVE Iter(_)
RECURSIVE IterKids(_, _)
Iter(e) == <<e>> \o IterKids(e.kids, 1)

IterKids(kids, i) ==
    IF i > Len(kids) THEN <<>> ELSE Iter(kids[i]) \o IterKids(kids, i + 1)

\* byid[id] for the table ET.XMLID builds: the last element of the document
\* that carries the id, KeyError when none does (None is no id).
ById(mlt, id) ==
    LET all == Iter(mlt)
        hits == {i \in 1..Len(all) :
                    "id" \in DOMAIN all[i].attrs /\ all[i].attrs.id = id}
    IN IF hits = {} THEN Raise("KeyError")
       ELSE all[CHOOSE i \in hits : \A j \in hits : j <= i]

\* mlt.find(path): the first child that fits, NoneObj when none does.
Find(mlt, Fits(_)) ==
    LET hits == {i \in 1..Len(mlt.kids) : Fits(mlt.kids[i])}
    IN IF hits = {} THEN NoneObj
       ELSE mlt.kids[CHOOSE i \in hits : \A j \in hits : i <= j]

RECURSIVE GCD(_, _)
GCD(a, b) == IF b = 0 THEN a ELSE GCD(b, a % b)

\* float(profile.get("frame_rate_num")) / float(profile.get("frame_rate_den", 1)),
\* as a fraction in lowest terms.
ProfileRate(profile) ==
    Then(IF Attr(profile, "frame_rate_num") = None THEN Raise("TypeError")
         ELSE float(Attr(profile, "frame_rate_num")),
         LAMBDA n :
    Then(IF Attr(profile, "frame_rate_den") = None THEN [v |-> 1000]
         ELSE float(Attr(profile, "frame_rate_den")),
         LAMBDA d :
    IF d.v = 0 THEN Raise("ZeroDivisionError")
    ELSE Rate(n.v \div GCD(n.v, d.v), d.v \div GCD(n.v, d.v))))

\* TimeRange(start_time=time(in), duration=time(out) - time(in))
ReadRange(e, rate) ==
    Then(time(Attr(e, "in"), rate), LAMBDA a :
    Then(time(Attr(e, "out"), rate), LAMBDA b :
    TimeRange(a, RtSub(b, a))))

\* {'duration': time(out) - time(in)} of a filter
FadeDuration(effect, rate) ==
    Then(time(Attr(effect, "out"), rate), LAMBDA b :
    Then(time(Attr(effect, "in"), rate), LAMBDA a :
    [duration |-> RtSub(b, a)]))

\* The chain of tests on a filter's kdenlive_id: the effect it gives,
\* NoneObj when no test fits, or the exception.
FilterEffect(effect, rate) ==
    LET kdenlive_id == mlt_property(effect, "kdenlive_id")
    IN CASE kdenlive_id \in {T("fadein"), T("fadeout"), T("fade_to_black")} ->
                Then(FadeDuration(effect, rate), LAMBDA d :
                Effect(CASE kdenlive_id = T("fadein") -> "audio_fade_in"
                         [] kdenlive_id = T("fadeout") -> "audio_fade_out"
                         [] OTHER -> "video_fade_out",
                       d))
         [] kdenlive_id = T("fade_from_black") ->
                Then(time(Attr(effect, "out"), rate), LAMBDA d :
                Effect("video_fade_in", [duration |-> d]))
         [] kdenlive_id \in {T("volume"), T("brightness")} ->
                Then(keyframes(mlt_property(effect, "level"), rate), LAMBDA k :
                Effect(kdenlive_id[1], [keyframes |-> k.dict]))
         [] OTHER -> NoneObj

\* for effect in item.findall("filter"): the effects of a clip, or the
\* exception.
RECURSIVE Effects(_, _, _)
Effects(filters, n, rate) ==
    IF n = 0 THEN [list |-> <<>>]
    ELSE Then(Effects(filters, n - 1, rate), LAMBDA done :
         Then(FilterEffect(filters[n], rate), LAMBDA e :
         IF IsNoneObj(e) THEN done ELSE [list |-> Append(done.list, e)]))

\* The reference the service of a producer gives, NoneObj when no test fits.
ServiceReference(producer, available_range) ==
    LET service == mlt_property(producer, "mlt_service")
        originalurl == mlt_property(producer, "kdenlive:originalurl")
    IN IF service \in {T("avformat"), T("avformat-novalidate"), T("qimage")}
       THEN ExternalReference(
                IF Truthy(originalurl) THEN originalurl
                ELSE mlt_property(producer, "resource"),
                available_range)
       ELSE IF service = T("color")
       THEN GeneratorReference("SolidColor",
                               [color |-> mlt_property(producer, "resource")],
                               available_range)
       ELSE NoneObj

\* reference or otio.schema.MissingReference()
OrMissing(reference) ==
    IF IsNoneObj(reference) THEN MissingReference ELSE reference

\* An entry of a playlist: its clip, or the exception.
ReadEntry(mlt, item, rate) ==
    Then(ById(mlt, Attr(item, "producer")), LAMBDA producer :
    Then(ReadRange(producer, rate), LAMBDA available_range :
    Then(ReadRange(item, rate), LAMBDA source_range :
    Then(Effects(FindAll(item, "filter"), Len(FindAll(item, "filter")), rate),
         LAMBDA effects :
    Clip(mlt_property(producer, "kdenlive:clipname"),
         source_range,
         OrMissing(ServiceReference(producer, available_range)),
         effects.list)))))

\* One element met by playlist.iter(): the track's items after it.
ReadItem(mlt, items, item, rate) ==
    IF item.tag = "blank"
    THEN Then(time(Attr(item, "length"), rate), LAMBDA d :
         [list |-> Append(items.list, Gap(d))])
    ELSE IF item.tag = "entry"
    THEN Then(ReadEntry(mlt, item, rate), LAMBDA clip :
         [list |-> Append(items.list, clip)])
    ELSE items

RECURSIVE ReadItems(_, _, _, _, _)
ReadItems(mlt, items, found, n, rate) ==
    IF n = 0 THEN items
    ELSE Then(ReadItems(mlt, items, found, n - 1, rate), LAMBDA done :
         ReadItem(mlt, done, found[n], rate))

\* for subtrack in subtractor.findall("track"): the items of all its
\* playlists, or the exception.
RECURSIVE ReadPlaylists(_, _, _, _)
ReadPlaylists(mlt, subtracks, n, rate) ==
    IF n = 0 THEN [list |-> <<>>]
    ELSE Then(ReadPlaylists(mlt, subtracks, n - 1, rate), LAMBDA done :
         Then(ById(mlt, Attr(subtracks[n], "producer")), LAMBDA playlist :
         ReadItems(mlt, done, Iter(playlist), Len(Iter(playlist)), rate)))

\* The track a subtractor gives, appended to the timeline's tracks.
ReadSubtractor(mlt, tracks, subtractor, rate) ==
    Then(ReadPlaylists(mlt, FindAll(subtractor, "track"),
                       Len(FindAll(subtractor, "track")), rate),
         LAMBDA items :
    [list |-> Append(tracks.list,
         Track(mlt_property(subtractor, "kdenlive:track_name"),
               IF Truthy(mlt_property(subtractor, "kdenlive:audio_track"))
               THEN "Audio" ELSE "Video",
               items.list))])

\* A faulty variant, which C8 rules out: a track whose producer no element
\* carries is passed over, as black_track is.
ReadTrackSkipsUnknown(mlt, tracks, maintrack, rate) ==
    IF \/ Attr(maintrack, "producer") = T("black_track")
       \/ IsExc(ById(mlt, Attr(maintrack, "producer")))
    THEN tracks
    ELSE ReadSubtractor(mlt, tracks, ById(mlt, Attr(maintrack, "producer")), rate)

\* One track of the main tractor: the timeline's tracks after it.
ReadTrack(mlt, tracks, maintrack, rate) ==
    IF Attr(maintrack, "producer") = T("black_track") THEN tracks
    ELSE Then(ById(mlt, Attr(maintrack, "producer")), LAMBDA subtractor :
         ReadSubtractor(mlt, tracks, subtractor, rate))

RECURSIVE ReadTracks(_, _, _, _)
ReadTracks(mlt, maintracks, n, rate) ==
    IF n = 0 THEN [list |-> <<>>]
    ELSE Then(ReadTracks(mlt, maintracks, n - 1, rate), LAMBDA done :
         ReadTrack(mlt, done, maintracks[n], rate))

\* int(text) of a text of digits, with or without a sign.
ParseInt(s) ==
    IF s = None THEN Raise("TypeError")
    ELSE LET signed == Len(s) > 0 /\ s[1] \in {"-", "+"}
             ds == IF signed THEN SubSeq(s, 2, Len(s)) ELSE s
         IN IF Len(ds) = 0 \/ \E i \in 1..Len(ds) : ds[i] \notin Digits
            THEN Raise("ValueError")
            ELSE [v |-> IF signed /\ s[1] = "-" THEN 0 - IntOf(ds) ELSE IntOf(ds)]

\* A faulty variant, which C10 rules out: b_track taken as the 0-based index.
TrackIndexUnshifted(b_track, n) ==
    IF b_track \in 0..(n - 1) THEN b_track + 1
    ELSE IF b_track \in (-n)..(-1) THEN n + b_track + 1
    ELSE 0

\* timeline.tracks[b_track - 1]: the place, counted from 1, of the track a
\* Python index picks among n tracks, 0 for an IndexError.
TrackIndex(b_track, n) ==
    IF b_track - 1 \in 0..(n - 1) THEN b_track
    ELSE IF b_track - 1 \in (-n)..(-1) THEN n + b_track
    ELSE 0

\* One transition of the main tractor: the timeline's tracks after it.
ReadTransition(tracks, transition, rate) ==
    IF mlt_property(transition, "kdenlive_id") # T("wipe") THEN tracks
    ELSE Then(ParseInt(mlt_property(transition, "b_track")), LAMBDA b :
         Then(IF TrackIndex(b.v, Len(tracks.list)) = 0 THEN Raise("IndexError")
              ELSE [k |-> TrackIndex(b.v, Len(tracks.list))],
              LAMBDA at :
         Then(time(Attr(transition, "in"), rate), LAMBDA in_offset :
         Then(time(Attr(transition, "out"), rate), LAMBDA out_offset :
         [list |-> [tracks.list EXCEPT ![at.k].items =
             Append(@, Transition("SMPTE_Dissolve", in_offset, out_offset))]]))))

RECURSIVE ReadTransitions(_, _, _, _)
ReadTransitions(tracks, transitions, n, rate) ==
    IF n = 0 THEN tracks
    ELSE Then(ReadTransitions(tracks, transitions, n - 1, rate), LAMBDA done :
         ReadTransition(done, transitions[n], rate))

\* mlt.find("tractor[@global_feed='1']")
MainTractor(mlt) ==
    Find(mlt, LAMBDA k : k.tag = "tractor" /\ Attr(k, "global_feed") = T("1"))

\* The first part of read_from_string, up to the last track appended: the
\* project rate and the Timeline so far, or the exception that leaves it.
ReadProject(mlt) ==
    IF IsNoneObj(Find(mlt, LAMBDA k : k.tag = "profile"))
    THEN Raise("AttributeError")
    ELSE Then(ProfileRate(Find(mlt, LAMBDA k : k.tag = "profile")), LAMBDA rate :
         IF IsNoneObj(MainTractor(mlt)) THEN Raise("AttributeError")
         ELSE Then(ReadTracks(mlt, FindAll(MainTractor(mlt), "track"),
                              Len(FindAll(MainTractor(mlt), "track")), rate),
                   LAMBDA tracks :
              [rate |-> rate,
               timeline |-> Timeline(IF Attr(mlt, "name") = None
                                     THEN T("Kdenlive imported timeline")
                                     ELSE Attr(mlt, "name"),
                                     tracks.list)]))

\* The second part, the loop over the transitions of the main tractor: the
\* Timeline returned, or the exception.
ReadWipes(mlt, tl, rate) ==
    Then(ReadTransitions([list |-> tl.tracks],
                         FindAll(MainTractor(mlt), "transition"),
                         Len(FindAll(MainTractor(mlt), "transition")), rate),
         LAMBDA final : Timeline(tl.name, final.list))

\* The Timeline read from the document mlt, or the exception that leaves
\* read_from_string.
read_from_string(mlt) ==
    Then(ReadProject(mlt), LAMBDA project :
    ReadWipes(mlt, project.timeline, project.rate))

(***************************************************************************)
(* Inputs of time() and keyframes().                                       *)
(***************************************************************************)
Two(n) == <<DigitChar[(n \div 10) + 1], DigitChar[(n % 10) + 1]>>

Three(n) == <<DigitChar[(n \div 100) + 1]>> \o Two(n % 100)

\* The clock strings tried: a form, its fields and the fraction separator.
\* "frames" is a bare integer, the frame count mm * 60 + ss.
ClockFields ==
    [form : {"H:MM:SS.fff", "MM:SS.fff", "SS.fff", "frames"},
     h : 0..MaxHours, mm : {0, 25, 59}, ss : {0, 15, 59},
     fff : {0, 1, 250, 999}, sep : {".", ","}]

ClockStr(c) ==
    LET secs == Two(c.ss) \o <<c.sep>> \o Three(c.fff)
    IN CASE c.form = "H:MM:SS.fff" ->
                str(c.h) \o <<":">> \o Two(c.mm) \o <<":">> \o secs
         [] c.form = "MM:SS.fff" -> Two(c.mm) \o <<":">> \o secs
         [] c.form = "SS.fff" -> secs
         [] c.form = "frames" -> str(c.mm * 60 + c.ss)

ClockTable == {<<ClockStr(c), c>> : c \in ClockFields}

TimeRates == {Rate(25, 1), Rate(24, 1), Rate(24000, 1001), Rate(30000, 1001)}

KfAlphabet == {"1", "5", "=", "~", "|", ";"}

KfExample ==
    <<"0", "=", "0", ";", "2", "5", "~", "=", "1", "0", "0", ";",
      "5", "0", "|", "=", "5", "0">>

KfStrings ==
    UNION {[1..n -> KfAlphabet] : n \in 0..MaxKfLen} \cup {KfExample}

(***************************************************************************)
(* Calls of time() and of keyframes().                                     *)
(***************************************************************************)
InitTime ==
    /\ pc = "start"
    /\ clock \in {e[1] : e \in ClockTable}
    /\ fps \in TimeRates
    /\ kfstring = Unused
    /\ timeline = Unused
    /\ media_prod = Unused
    /\ resource = Unused
    /\ xml = Unused
    /\ result = Unused

Time ==
    /\ pc = "start"
    /\ result' = time(clock, fps)
    /\ pc' = "timed"
    /\ UNCHANGED <<clock, fps, kfstring, timeline, media_prod, resource, xml>>

NextTime == Time

SpecTime == InitTime /\ [][NextTime]_vars

InitKeyframes ==
    /\ pc = "start"
    /\ clock = Unused
    /\ fps \in {Rate(25, 1), Rate(30000, 1001)}
    /\ kfstring \in KfStrings
    /\ timeline = Unused
    /\ media_prod = Unused
    /\ resource = Unused
    /\ xml = Unused
    /\ result = Unused

Keyframes ==
    /\ pc = "start"
    /\ result' = keyframes(kfstring, fps)
    /\ pc' = "keyframed"
    /\ UNCHANGED <<clock, fps, kfstring, timeline, media_prod, resource, xml>>

NextKeyframes == Keyframes

SpecKeyframes == InitKeyframes /\ [][NextKeyframes]_vars

(***************************************************************************)
(* Inputs of write_to_string(): timelines.                                 *)
(***************************************************************************)
SeqsUpTo(S, n) == UNION {[1..k -> S] : k \in 0..n}

RECURSIVE SumTo(_, _)
SumTo(c, i) == IF i = 0 THEN 0 ELSE SumTo(c, i - 1) + c[i]

\* The ways to deal n items in order to t tracks: the tracks' lengths.
Cuts(n, t) == {c \in [1..t -> 0..n] : SumTo(c, t) = n}

\* The timeline whose tracks take the items in order, c[i] of them for
\* track i, of kind kinds[i].
TimelineOf(items, c, kinds) ==
    Timeline(T("timeline"),
             [i \in 1..Len(c) |->
                 Track(T("track"), kinds[i],
                       SubSeq(items, SumTo(c, i - 1) + 1, SumTo(c, i)))])

\* n frames and f thousandths of a frame.
Frames(n, f, rate) == RationalTime(n * 1000 + f, rate)

FrameRange(start, duration, rate) ==
    TimeRange(Frames(start, 0, rate), Frames(duration, 0, rate))

UrlA == <<"a", ".mov">>
UrlB == <<"b", ".PNG">>
UrlC == <<"c", ".mov">>
NoUrl == <<>>

\* The items a track is made of, at one rate: a gap, clips of each kind of
\* media reference, two of them on the same url, and a transition.
WriteItems(rate) ==
    LET whole == FrameRange(0, 100, rate)
        head == FrameRange(0, 5, rate)
        tail == FrameRange(10, 5, rate)
    IN {Gap(Frames(5, 0, rate)),
        Clip(T("a"), head, ExternalReference(UrlA, whole), <<>>),
        Clip(T("a2"), tail, ExternalReference(UrlA, whole), <<>>),
        Clip(None, head, ExternalReference(UrlB, whole),
             <<Effect("blur", [radius |-> T("2")])>>),
        Clip(T("c"), head, ExternalReference(UrlC, NoneObj), <<>>),
        Clip(T("nowhere"), head, ExternalReference(NoUrl, whole), <<>>),
        Clip(T("red"), head,
             GeneratorReference("SolidColor", [color |-> T("red")], whole),
             <<>>),
        Clip(T("bars"), head, GeneratorReference("SMPTEBars", <<>>, whole), <<>>),
        Clip(T("lost"), head, MissingReference, <<>>),
        Transition("SMPTE_Dissolve", Frames(2, 0, rate), Frames(2, 0, rate))}

\* Track 1 is a video track, track 2 an audio track, and so on.
WriteKinds(t) == [i \in 1..t |-> IF i % 2 = 1 THEN "Video" ELSE "Audio"]

\* The timelines of at most n items in at most m tracks.
WriteTimelines(n, m) ==
    UNION {UNION {{TimelineOf(s, c, WriteKinds(t)) : c \in Cuts(Len(s), t)} :
                  t \in 0..m} :
           s \in SeqsUpTo(WriteItems(Rate(25, 1)), n)}

\* The rates of the timelines whose profile is checked: 23.976, 23.98,
\* 29.97, 59.94, the NTSC fractions, 23.974, whole rates, 24.7 and 29.5.
WriteRates ==
    {Rate(2997, 125), Rate(1199, 50), Rate(2997, 100), Rate(2997, 50),
     Rate(24000, 1001), Rate(30000, 1001), Rate(60000, 1001),
     Rate(11987, 500), Rate(24, 1), Rate(25, 1), Rate(30, 1), Rate(60, 1),
     Rate(247, 10), Rate(59, 2), Rate(12, 1)}

RateItems(rate) ==
    {Gap(Frames(5, 0, rate)),
     Clip(T("a"), FrameRange(0, 5, rate),
          ExternalReference(UrlA, FrameRange(0, 100, rate)), <<>>)}

\* The timelines of one track of at most n items, at each of the rates.
RateTimelines(n) ==
    UNION {{TimelineOf(s, <<Len(s)>>, <<"Video">>) :
               s \in SeqsUpTo(RateItems(rate), n) \ {<<>>}} :
           rate \in WriteRates}

\* The timelines written and read back: gaps and clips of external
\* references, the ranges in whole frames or not, in tracks of any kind.
RoundTripItems(rate) ==
    LET whole == FrameRange(0, 100, rate)
    IN {Gap(Frames(5, 0, rate)),
        Clip(T("a"), FrameRange(0, 5, rate), ExternalReference(UrlA, whole), <<>>),
        Clip(T("a"), FrameRange(10, 5, rate), ExternalReference(UrlA, whole), <<>>),
        Clip(T("b"), TimeRange(Frames(1, 500, rate), Frames(5, 0, rate)),
             ExternalReference(UrlB, whole), <<>>),
        Clip(T("b"), TimeRange(Frames(10, 0, rate), Frames(2, 500, rate)),
             ExternalReference(UrlB, whole), <<>>),
        Clip(T("c"), FrameRange(0, 5, rate), ExternalReference(UrlC, NoneObj), <<>>)}

RoundTripTimelines(n, m) ==
    UNION {UNION {UNION {{TimelineOf(s, c, kinds) : c \in Cuts(Len(s), t)} :
                         kinds \in [1..t -> {"Video", "Audio"}]} :
                  t \in 0..m} :
           s \in UNION {SeqsUpTo(RoundTripItems(rate), n) :
                        rate \in {Rate(25, 1), Rate(2997, 125)}}}

(***************************************************************************)
(* Inputs of read_from_string(): documents.                                *)
(***************************************************************************)
\* SS.000 as a clock string with its three fields.
ClockOf(ss) ==
    ClockStr([form |-> "H:MM:SS.fff", h |-> 0, mm |-> 0, ss |-> ss,
              fff |-> 0, sep |-> "."])

\* The producers of the documents: one for each service the reader knows a
\* reference for, one of a service it does not know, one without a service,
\* and the placeholder the writer emits, which has neither in nor out.
MediaProducer(id, service, res) ==
    Elem("producer", [id |-> T(id), in |-> str(0), out |-> ClockOf(4)],
         (IF service = None THEN <<>> ELSE [mlt_service |-> service])
         @@ [resource |-> res] @@ ("kdenlive:clipname" :> T(id)),
         <<>>)

DocProducers ==
    <<MediaProducer("clip_av", T("avformat"), T("a.mov")),
      MediaProducer("clip_color", T("color"), T("red")),
      MediaProducer("clip_title", T("kdenlivetitle"), T("title")),
      MediaProducer("clip_plain", None, T("plain")),
      UnsupportedProducer>>

Filter(kdenlive_id, level) ==
    Elem("filter", [in |-> str(0), out |-> str(10)],
         [kdenlive_id |-> T(kdenlive_id)]
         @@ (IF level = None THEN <<>> ELSE [level |-> level]),
         <<>>)

Entry(producer, filters) ==
    Elem("entry", [producer |-> T(producer), in |-> str(10), out |-> ClockOf(1)],
         <<>>, filters)

\* What a playlist holds: a blank, or an entry of one of the producers, of
\* the placeholder, or of an id no element carries.
EntryKinds ==
    {"blank", "av", "color", "title", "plain", "unsupported", "ghost"}

EntryOf(kind) ==
    CASE kind = "blank" -> Elem("blank", [length |-> str(5)], <<>>, <<>>)
      [] kind = "av" ->
            Entry("clip_av", <<Filter("fadein", None), Filter("gamma", None),
                               Filter("volume", KfExample)>>)
      [] kind = "color" -> Entry("clip_color", <<Filter("fade_from_black", None)>>)
      [] kind = "title" -> Entry("clip_title", <<Filter("gamma", None)>>)
      [] kind = "plain" -> Entry("clip_plain", <<>>)
      [] kind = "unsupported" -> Entry("unsupported", <<>>)
      [] kind = "ghost" -> Entry("ghost", <<>>)

\* What a document lacks.
Flaws ==
    {"none", "no_profile", "no_global_feed", "stray_playlist", "lost_track",
     "lost_playlist", "no_black"}

\* The elements of track n: its playlists and its tractor, but for the one
\* that is lost.
DocTrack(n, kinds, lost) ==
    LET audio == IF n % 2 = 0 THEN ("kdenlive:audio_track" :> T("1")) ELSE <<>>
    IN <<Elem("playlist", [id |-> <<"playlist", n, 1>>], audio,
              [j \in 1..Len(kinds) |-> EntryOf(kinds[j])])>>
       \o (IF lost = "lost_playlist" THEN <<>>
           ELSE <<Elem("playlist", [id |-> <<"playlist", n, 2>>], audio, <<>>)>>)
       \o (IF lost = "lost_track" THEN <<>>
           ELSE <<Elem("tractor", [id |-> <<"tractor", n>>],
                       audio @@ ("kdenlive:track_name" :> <<"track", n>>),
                       <<Elem("track", [producer |-> <<"playlist", n, 1>>],
                              <<>>, <<>>),
                         Elem("track", [producer |-> <<"playlist", n, 2>>],
                              <<>>, <<>>)>>)>>)

RECURSIVE DocTracks(_, _, _, _)
DocTracks(kinds, c, n, flaw) ==
    IF n = 0 THEN <<>>
    ELSE DocTracks(kinds, c, n - 1, flaw)
         \o DocTrack(n, SubSeq(kinds, SumTo(c, n - 1) + 1, SumTo(c, n)),
                     IF n = Len(c) THEN flaw ELSE "none")

DocTransition(x) ==
    Elem("transition", [in |-> str(10), out |-> ClockOf(1)],
         [kdenlive_id |-> T(x.kdenlive_id), a_track |-> str(0),
          b_track |-> str(x.b_track)], <<>>)

\* The document of a shape d: what it lacks, the entries of its tracks and
\* the transitions of its main tractor.
Doc(d) ==
    LET t == Len(d.cut)
    IN Elem("mlt", [version |-> T("6.16.0"), producer |-> T("main_bin")], <<>>,
            (IF d.flaw = "no_profile" THEN <<>>
             ELSE <<Elem("profile", [frame_rate_num |-> str(25),
                                     frame_rate_den |-> str(1)], <<>>, <<>>)>>)
            \o DocProducers
            \o (IF d.flaw = "stray_playlist"
                THEN <<Elem("playlist", [id |-> T("main_bin")], <<>>,
                            <<Entry("ghost", <<>>)>>)>>
                ELSE <<>>)
            \o (IF d.flaw = "no_black" THEN <<>> ELSE <<BlackProducer>>)
            \o DocTracks(d.entries, d.cut, t, d.flaw)
            \o <<Elem("tractor",
                      IF d.flaw = "no_global_feed" THEN [id |-> T("maintractor")]
                      ELSE [global_feed |-> T("1")],
                      <<>>,
                      <<Elem("track", [producer |-> T("black_track")], <<>>, <<>>)>>
                      \o [i \in 1..t |->
                             Elem("track", [producer |-> <<"tractor", i>>],
                                  <<>>, <<>>)]
                      \o [i \in 1..Len(d.transitions) |->
                             DocTransition(d.transitions[i])])>>)

\* The shapes that differ in what the document lacks and in its entries.
\* A document that lacks something holds blanks and the entries of clip_av
\* and of no element.
EntryShapes(n, m) ==
    UNION {UNION {{[flaw |-> flaw, entries |-> s, cut |-> c, transitions |-> <<>>] :
                      c \in Cuts(Len(s), t),
                      flaw \in IF \A j \in 1..Len(s) : s[j] \in {"blank", "av", "ghost"}
                               THEN Flaws ELSE {"none"}} :
                  t \in 0..m} :
           s \in SeqsUpTo(EntryKinds, n)}

\* The shapes that differ in their transitions: track i holds i - 1 blanks,
\* and b_track runs from 0 to one past the tracks.
TransitionShapes(n, m) ==
    UNION {{[flaw |-> "none",
             entries |-> [j \in 1..((t * (t - 1)) \div 2) |-> "blank"],
             cut |-> [i \in 1..t |-> i - 1],
             transitions |-> w] :
               w \in SeqsUpTo([kdenlive_id : {"wipe", "luma"},
                               b_track : 0..(t + 1)], n)} :
           t \in 0..m}

\* The documents of at most n entries, or else n transitions, in at most m
\* tracks.
Documents(n, w, m) ==
    {Doc(d) : d \in EntryShapes(n, m) \cup TransitionShapes(w, m)}

(***************************************************************************)
(* Calls of write_to_string() and of read_from_string(), each in two       *)
(* steps.                                                                  *)
(***************************************************************************)
InitCall ==
    /\ pc = "start"
    /\ clock = Unused
    /\ fps = Unused
    /\ kfstring = Unused
    /\ media_prod = Unused
    /\ resource = Unused
    /\ xml = Unused
    /\ result = Unused

\* write_to_string up to the black_track producer.
WriteLibrary ==
    /\ pc = "start"
    /\ LET head == WriteHead(timeline)
       IN IF IsExc(head)
          THEN /\ pc' = "failed"
               /\ result' = head
               /\ UNCHANGED <<xml, media_prod, resource>>
          ELSE /\ pc' = "library"
               /\ xml' = head.mlt
               /\ media_prod' = head.media_prod
               /\ resource' = head.resource
               /\ UNCHANGED result
    /\ UNCHANGED <<clock, fps, kfstring, timeline>>

\* write_to_string from the main tractor to the return.
WriteTracks ==
    /\ pc = "library"
    /\ LET body == WriteBody(timeline, xml, media_prod, resource)
       IN IF IsExc(body)
          THEN /\ pc' = "failed"
               /\ result' = body
               /\ UNCHANGED <<xml, resource>>
          ELSE /\ pc' = "xml"
               /\ xml' = body.mlt
               /\ resource' = body.resource
               /\ UNCHANGED result
    /\ UNCHANGED <<clock, fps, kfstring, timeline, media_prod>>

\* read_from_string up to the last track appended to the timeline.
ReadBuildTracks ==
    /\ pc = "xml"
    /\ LET project == ReadProject(xml)
       IN IF IsExc(project)
          THEN /\ pc' = "failed"
               /\ result' = project
               /\ UNCHANGED fps
          ELSE /\ pc' = "tracks"
               /\ result' = project.timeline
               /\ fps' = project.rate
    /\ UNCHANGED <<clock, kfstring, timeline, media_prod, resource, xml>>

\* read_from_string from the loop over the transitions to the return.
ReadAddTransitions ==
    /\ pc = "tracks"
    /\ LET final == ReadWipes(xml, result, fps)
       IN /\ result' = final
          /\ pc' = IF IsExc(final) THEN "failed" ELSE "read"
    /\ UNCHANGED <<clock, fps, kfstring, timeline, media_prod, resource, xml>>

InitWrite == InitCall /\ timeline \in WriteTimelines(MaxItems, MaxTracks)

NextWrite == WriteLibrary \/ WriteTracks

SpecWrite == InitWrite /\ [][NextWrite]_vars

InitRate == InitCall /\ timeline \in RateTimelines(MaxItems)

SpecRate == InitRate /\ [][NextWrite]_vars

InitRoundTrip == InitCall /\ timeline \in RoundTripTimelines(MaxItems, MaxTracks)

NextRoundTrip ==
    WriteLibrary \/ WriteTracks \/ ReadBuildTracks \/ ReadAddTransitions

SpecRoundTrip == InitRoundTrip /\ [][NextRoundTrip]_vars

InitRead ==
    /\ pc = "xml"
    /\ clock = Unused
    /\ fps = Unused
    /\ kfstring = Unused
    /\ timeline = Unused
    /\ media_prod = Unused
    /\ resource = Unused
    /\ xml \in Documents(MaxItems, MaxTransitions, MaxTracks)
    /\ result = Unused

NextRead == ReadBuildTracks \/ ReadAddTransitions

SpecRead == InitRead /\ [][NextRead]_vars

(***************************************************************************)
(* C6: time().                                                             *)
(***************************************************************************)
\* The seconds a clock string's fields stand for, in thousandths.
ClockSeconds(c) ==
    (IF c.form = "H:MM:SS.fff" THEN c.h * 3600000 ELSE 0)
    + (IF c.form \in {"H:MM:SS.fff", "MM:SS.fff"} THEN c.mm * 60000 ELSE 0)
    + c.ss * 1000 + c.fff

\* t * rate rounded to the nearest thousandth, for t in thousandths.
ScaledByRate(t, rate) ==
    LET a == (t % rate.den) * rate.num
        q == a \div rate.den
        r == a % rate.den
    IN (t \div rate.den) * rate.num
       + (IF 2 * r > rate.den THEN q + 1
          ELSE IF 2 * r = rate.den THEN q + (q % 2)
          ELSE q)

\* C6 as amended: a clock string that holds a ':' (H:MM:SS.fff, MM:SS.fff,
\* with '.' or ',' before the fraction) yields seconds*rate + minutes*rate*60
\* + hours*rate*3600 rounded to 3 decimals, and a string without ':' (a bare
\* integer, and SS.fff as well) yields the number it spells, unchanged, as the
\* frame count; both are paired with the rate.
C6_TimeWeightedSum ==
    pc = "timed" =>
        \A e \in ClockTable :
            e[1] = clock =>
                result = RationalTime(
                    CASE e[2].form \in {"H:MM:SS.fff", "MM:SS.fff"} ->
                             ScaledByRate(ClockSeconds(e[2]), fps)
                      [] e[2].form = "SS.fff" -> ClockSeconds(e[2])
                      [] e[2].form = "frames" -> (e[2].mm * 60 + e[2].ss) * 1000,
                    fps)

\* 2:25:15.250 at 25 fps is 180000 + 37500 + 375 + 6.25 frames.
C6_Witness ==
    /\ pc = "timed"
    /\ clock = <<"2", ":", "2", "5", ":", "1", "5", ".", "2", "5", "0">>
    /\ fps = Rate(25, 1)
    /\ result = RationalTime(217881250, Rate(25, 1))

\* C6 as the spec states it: SS.fff too is seconds multiplied by the rate.
C6_Original ==
    pc = "timed" =>
        \A e \in ClockTable :
            e[1] = clock =>
                result = RationalTime(
                    IF e[2].form = "frames" THEN (e[2].mm * 60 + e[2].ss) * 1000
                    ELSE ScaledByRate(ClockSeconds(e[2]), fps),
                    fps)

(***************************************************************************)
(* C7: keyframes().                                                        *)
(***************************************************************************)
\* The number of digits an entry starts with.
LeadDigits(e) ==
    CHOOSE k \in 0..Len(e) :
        /\ \A i \in 1..k : e[i] \in Digits
        /\ (k < Len(e) => e[k + 1] \notin Digits)

\* The index of the = that ends the operator of an entry 'time OP value',
\* or 0 when the entry is not of that form.
KfOperatorEnd(e) ==
    LET k == LeadDigits(e)
    IN IF k >= 1 /\ k + 1 <= Len(e) /\ e[k + 1] = "=" THEN k + 1
       ELSE IF /\ k >= 1
               /\ k + 2 <= Len(e)
               /\ e[k + 1] \in {"|", "~"}
               /\ e[k + 2] = "=" THEN k + 2
       ELSE 0

KfWellFormed(e) == KfOperatorEnd(e) # 0

KfNoOperator(e) == \A i \in 1..Len(e) : e[i] # "="

KfTime(e, rate) == RationalTime(IntOf(SubSeq(e, 1, LeadDigits(e))) * 1000, rate)

KfValue(e) == SubSeq(e, KfOperatorEnd(e) + 1, Len(e))

\* Every ';'-separated entry is 'time OP value' (the value may be empty) or
\* holds no operator at all (the empty entry included).
KfCovered(s) ==
    \A i \in 1..Len(Split(s, ";")) :
        KfWellFormed(Split(s, ";")[i]) \/ KfNoOperator(Split(s, ";")[i])

\* What the spec expects of its example "0=0;25~=100;50|=50".
KfExampleResult(rate) ==
    [dict |-> <<[key |-> RationalTime(0, rate), value |-> <<"0">>],
                [key |-> RationalTime(25000, rate), value |-> <<"1", "0", "0">>],
                [key |-> RationalTime(50000, rate), value |-> <<"5", "0">>]>>]

KidWithId(doc, id) ==
    doc.kids[CHOOSE j \in 1..Len(doc.kids) : Attr(doc.kids[j], "id") = id]

\* The gaps and clips of a track: the items that get a blank or an entry.
TimedItems(track) ==
    SelectSeq(track.items, LAMBDA it : it.type \in {"Gap", "Clip"})

\* The children of the first playlist of track i.
WrittenItems(doc, i) == KidWithId(doc, <<"playlist", i, 1>>).kids

\* A reference with a resource key: external, or a SolidColor generator.
HasKey(ref) ==
    \/ ref.type = "ExternalReference"
    \/ ref.type = "GeneratorReference" /\ ref.generator_kind = "SolidColor"

ResourceKey(ref) ==
    IF ref.type = "ExternalReference" THEN ref.target_url ELSE ref.parameters.color

AllClips(tl) == each_clip(tl.tracks, 1)

\* The resource keys of the clips of a timeline.
KeysSeen(tl) ==
    {ResourceKey(AllClips(tl)[j].media_reference) :
        j \in {k \in 1..Len(AllClips(tl)) : HasKey(AllClips(tl)[k].media_reference)}}

\* The producers of the media library: those named producer0, producer1, ...
MediaProducers(doc) ==
    SelectSeq(doc.kids,
              LAMBDA k : k.tag = "producer" /\ Attr(k, "id")[1] = "producer")

ProducersOf(doc, key) ==
    {j \in 1..Len(MediaProducers(doc)) :
        mlt_property(MediaProducers(doc)[j], "resource") = key}

\* Every entry of a clip with a resource key names the one producer of that
\* key.
EntriesNameTheirProducer ==
    \A i \in 1..Len(timeline.tracks) :
        LET its == TimedItems(timeline.tracks[i])
            written == WrittenItems(xml, i)
        IN /\ Len(written) = Len(its)
           /\ \A j \in 1..Len(its) :
                its[j].type = "Clip" /\ HasKey(its[j].media_reference) =>
                    /\ written[j].tag = "entry"
                    /\ \E p \in ProducersOf(xml, ResourceKey(its[j].media_reference)) :
                          Attr(written[j], "producer")
                              = Attr(MediaProducers(xml)[p], "id")

(***************************************************************************)
(* C1: one producer for each resource.                                     *)
(***************************************************************************)
\* C1 as amended: once the library is built, the media producers are as many
\* as the distinct non-empty resource keys of the clips, one for each such
\* key, and in the document returned every entry of a clip whose reference
\* is external or a SolidColor generator names the producer of its key.
C1_OneProducerPerResource ==
    /\ pc \in {"library", "xml"} =>
          /\ Len(MediaProducers(xml)) = Cardinality(KeysSeen(timeline) \ {NoUrl})
          /\ \A key \in KeysSeen(timeline) \ {NoUrl} :
                Cardinality(ProducersOf(xml, key)) = 1
    /\ pc = "xml" => EntriesNameTheirProducer

\* Two tracks, each with a clip of a.mov, are written with one producer.
C1_Witness ==
    /\ pc = "xml"
    /\ Len(timeline.tracks) = 2
    /\ \A i \in 1..2 :
          /\ Len(timeline.tracks[i].items) = 1
          /\ timeline.tracks[i].items[1].type = "Clip"
          /\ timeline.tracks[i].items[1].media_reference.type = "ExternalReference"
          /\ timeline.tracks[i].items[1].media_reference.target_url = UrlA
          /\ Attr(WrittenItems(xml, i)[1], "producer") = <<"producer", 0>>
    /\ Len(MediaProducers(xml)) = 1

\* C1 as the spec states it: the media producers are as many as the distinct
\* resource keys seen, the empty one included.
C1_Original ==
    /\ pc \in {"library", "xml"} =>
          Len(MediaProducers(xml)) = Cardinality(KeysSeen(timeline))
    /\ pc = "xml" => EntriesNameTheirProducer

(***************************************************************************)
(* C3: a missing reference is written as the placeholder.                  *)
(***************************************************************************)
\* C3: the document holds the producer "unsupported" once the library is
\* built; in the document returned, the entry of every clip with a missing
\* reference names "unsupported", wherever the clip sits; and a call never
\* fails on a timeline all of whose clips have a missing reference.
C3_MissingIsUnsupported ==
    /\ pc \in {"library", "xml"} =>
          Cardinality({j \in 1..Len(xml.kids) :
                          /\ xml.kids[j].tag = "producer"
                          /\ Attr(xml.kids[j], "id") = T("unsupported")}) = 1
    /\ pc = "xml" =>
          \A i \in 1..Len(timeline.tracks) :
              LET its == TimedItems(timeline.tracks[i])
                  written == WrittenItems(xml, i)
              IN /\ Len(written) = Len(its)
                 /\ \A j \in 1..Len(its) :
                      /\ its[j].type = "Clip"
                      /\ its[j].media_reference.type = "MissingReference"
                      => /\ written[j].tag = "entry"
                         /\ Attr(written[j], "producer") = T("unsupported")
    /\ pc = "failed" =>
          \E j \in 1..Len(AllClips(timeline)) :
              AllClips(timeline)[j].media_reference.type # "MissingReference"

\* A clip with a missing reference after a clip of a.mov: the second entry
\* names the placeholder, the first producer0.
C3_Witness ==
    /\ pc = "xml"
    /\ Len(timeline.tracks) = 1
    /\ Len(timeline.tracks[1].items) = 2
    /\ timeline.tracks[1].items[1].type = "Clip"
    /\ timeline.tracks[1].items[1].media_reference.type = "ExternalReference"
    /\ timeline.tracks[1].items[2].type = "Clip"
    /\ timeline.tracks[1].items[2].media_reference.type = "MissingReference"
    /\ Attr(WrittenItems(xml, 1)[1], "producer") = <<"producer", 0>>
    /\ Attr(WrittenItems(xml, 1)[2], "producer") = T("unsupported")

(***************************************************************************)
(* C4: the writer never fails.                                             *)
(***************************************************************************)
\* A clip whose resource the library does not hold.
Unregistered(clip) ==
    \/ ~HasKey(clip.media_reference)
    \/ ResourceKey(clip.media_reference) = NoUrl

\* C4 as the spec states it: the call returns a document whatever the
\* references of the clips, and the entry of every clip whose reference is
\* missing or whose resource is not in the library names "unsupported".
C4_NeverFails ==
    /\ pc # "failed"
    /\ pc = "xml" =>
          \A i \in 1..Len(timeline.tracks) :
              LET its == TimedItems(timeline.tracks[i])
                  written == WrittenItems(xml, i)
              IN /\ Len(written) = Len(its)
                 /\ \A j \in 1..Len(its) :
                      its[j].type = "Clip" /\ Unregistered(its[j]) =>
                          Attr(written[j], "producer") = T("unsupported")

(***************************************************************************)
(* C5: the rate of the profile.                                            *)
(***************************************************************************)
\* 100 * rate is nearer than a half to c: round(rate, 2) is c hundredths.
\* No rate tried is a tie.
RoundsTo(rate, c) ==
    LET d == 100 * rate.num - c * rate.den
    IN 2 * (IF d < 0 THEN 0 - d ELSE d) < rate.den

\* The integer part of a rate.
Truncated(rate) ==
    CHOOSE n \in 0..rate.num : n * rate.den <= rate.num /\ rate.num < (n + 1) * rate.den

\* The integer nearest to a rate, the even one of two.
Nearest(rate) ==
    CHOOSE n \in 0..(rate.num + 1) :
        LET d == rate.num - n * rate.den
            a == IF d < 0 THEN 0 - d ELSE d
        IN 2 * a < rate.den \/ (2 * a = rate.den /\ n % 2 = 0)

\* The profile's frame_rate_num and frame_rate_den are those of ratio.
ProfileIs(ratio) ==
    /\ xml.kids[1].tag = "profile"
    /\ Attr(xml.kids[1], "frame_rate_num") = str(ratio[1])
    /\ Attr(xml.kids[1], "frame_rate_den") = str(ratio[2])

\* C5 as amended: a rate that rounds to 2 decimals as 23.98, 29.97 or 59.94
\* is emitted as 24000/1001, 30000/1001 or 60000/1001, and every other rate
\* r as (int(r), 1), its integer part over 1.
C5_RateRatio ==
    pc \in {"library", "xml"} =>
        LET rate == DurationRate(timeline)
        IN ProfileIs(CASE RoundsTo(rate, 2398) -> <<24000, 1001>>
                       [] RoundsTo(rate, 2997) -> <<30000, 1001>>
                       [] RoundsTo(rate, 5994) -> <<60000, 1001>>
                       [] OTHER -> <<Truncated(rate), 1>>)

\* 24.7 is emitted as 24/1.
C5_Witness ==
    /\ pc = "xml"
    /\ DurationRate(timeline) = Rate(247, 10)
    /\ ProfileIs(<<24, 1>>)

\* C5 as the spec states it: every other rate r is emitted as (round(r), 1).
C5_Original ==
    pc \in {"library", "xml"} =>
        LET rate == DurationRate(timeline)
        IN ProfileIs(CASE RoundsTo(rate, 2398) -> <<24000, 1001>>
                       [] RoundsTo(rate, 2997) -> <<30000, 1001>>
                       [] RoundsTo(rate, 5994) -> <<60000, 1001>>
                       [] OTHER -> <<Nearest(rate), 1>>)

(***************************************************************************)
(* C2: a timeline written and read back.                                   *)
(***************************************************************************)
\* C2 as the spec states it: a timeline of gaps and of clips of external
\* references is written and read back, and the timeline read has as many
\* tracks, each of the same kind and with the same sequence of gaps and
\* clips, each clip with the same start and duration of its source range.
C2_RoundTrip ==
    /\ pc # "failed"
    /\ pc = "read" =>
          /\ Len(result.tracks) = Len(timeline.tracks)
          /\ \A i \in 1..Len(timeline.tracks) :
                LET was == timeline.tracks[i]
                    is == result.tracks[i]
                IN /\ is.kind = was.kind
                   /\ Len(is.items) = Len(was.items)
                   /\ \A j \in 1..Len(was.items) :
                        /\ is.items[j].type = was.items[j].type
                        /\ was.items[j].type = "Clip" =>
                              /\ is.items[j].source_range.start_time.value
                                    = was.items[j].source_range.start_time.value
                              /\ is.items[j].source_range.duration.value
                                    = was.items[j].source_range.duration.value

(***************************************************************************)
(* What the claims about read_from_string() read in a document.            *)
(***************************************************************************)
Elements(doc) == LET all == Iter(doc) IN {all[i] : i \in 1..Len(all)}

Ids(doc) == {Attr(e, "id") : e \in Elements(doc)} \ {None}

\* The element that carries id; the documents read carry an id once.
Carrier(doc, id) == CHOOSE e \in Elements(doc) : Attr(e, "id") = id

HasProfile(doc) == \E j \in 1..Len(doc.kids) : doc.kids[j].tag = "profile"

GlobalFeeds(doc) ==
    {j \in 1..Len(doc.kids) :
        doc.kids[j].tag = "tractor" /\ Attr(doc.kids[j], "global_feed") = T("1")}

HasGlobalFeed(doc) == GlobalFeeds(doc) # {}

GlobalFeed(doc) == doc.kids[CHOOSE j \in GlobalFeeds(doc) : TRUE]

\* The children of e with a tag, in order.
Tagged(e, tag) == SelectSeq(e.kids, LAMBDA k : k.tag = tag)

\* The producers the children of e with a tag name.
Named(e, tag) ==
    LET named == Tagged(e, tag)
    IN {Attr(named[j], "producer") : j \in 1..Len(named)}

\* The tracks of the main tractor that are read: all but black_track.
MainTracks(doc) ==
    SelectSeq(Tagged(GlobalFeed(doc), "track"),
              LAMBDA k : Attr(k, "producer") # T("black_track"))

\* The ids the read looks up: those of the tracks of the main tractor, of
\* the tracks of their tractors and of the entries of their playlists.
TractorIds(doc) ==
    LET read == MainTracks(doc)
    IN {Attr(read[j], "producer") : j \in 1..Len(read)}

PlaylistIds(doc) ==
    LET all == Elements(doc)
    IN UNION {Named(e, "track") : e \in {k \in all : Attr(k, "id") \in TractorIds(doc)}}

EntryIds(doc) ==
    LET all == Elements(doc)
        playlists == PlaylistIds(doc)
    IN UNION {Named(e, "entry") : e \in {k \in all : Attr(k, "id") \in playlists}}

LookedUp(doc) == TractorIds(doc) \cup PlaylistIds(doc) \cup EntryIds(doc)

\* The ids a track or an entry anywhere in the document names.
NamedAnywhere(doc) ==
    {Attr(e, "producer") : e \in {k \in Elements(doc) : k.tag \in {"track", "entry"}}}

\* An entry that is read names a producer without in or out.
SomeProducerHasNoRange(doc) ==
    LET entries == EntryIds(doc)
    IN \E e \in Elements(doc) :
          /\ Attr(e, "id") \in entries
          /\ Attr(e, "in") = None \/ Attr(e, "out") = None

(***************************************************************************)
(* C8: the read aborts on a document that lacks its structure.             *)
(***************************************************************************)
\* C8 as amended: the read aborts and returns no Timeline, with an
\* AttributeError when the document has no profile or no tractor flagged
\* global_feed='1', and when an id that is looked up (a track of that tractor
\* other than black_track, a track of such a track's tractor, an entry of
\* such a playlist) is carried by no element, with a KeyError, or with the
\* AttributeError of an entry read before it whose producer has no in or
\* out.  An id that no element carries and that is not looked up, the
\* black_track or an entry of a playlist no track leads to, aborts nothing.
C8_AbortsOnMissingStructure ==
    pc \in {"tracks", "read", "failed"} =>
        /\ ~HasProfile(xml) =>
              pc = "failed" /\ result = Raise("AttributeError")
        /\ HasProfile(xml) /\ ~HasGlobalFeed(xml) =>
              pc = "failed" /\ result = Raise("AttributeError")
        /\ HasProfile(xml) /\ HasGlobalFeed(xml) =>
              LET lost == LookedUp(xml) \ Ids(xml)
              IN /\ lost # {} =>
                       /\ pc = "failed"
                       /\ result \in {Raise("KeyError"), Raise("AttributeError")}
                       /\ ~SomeProducerHasNoRange(xml) => result = Raise("KeyError")
                 /\ lost = {} /\ ~SomeProducerHasNoRange(xml) =>
                       (pc = "failed" => result = Raise("IndexError"))

\* A document with its profile and its main tractor, where an id that is
\* looked up is carried by no element, is left with a KeyError.
C8_Witness ==
    /\ pc = "failed"
    /\ result = Raise("KeyError")
    /\ HasProfile(xml)
    /\ HasGlobalFeed(xml)
    /\ T("ghost") \in LookedUp(xml) \ Ids(xml)

\* C8 as the spec states it: without a profile, without a tractor flagged
\* global_feed='1', or with a track or an entry that names an id no element
\* carries, the read aborts with a MalformedProjectError.
C8_Original ==
    /\ pc \in {"tracks", "read", "failed"}
    /\ \/ ~HasProfile(xml)
       \/ ~HasGlobalFeed(xml)
       \/ NamedAnywhere(xml) \ Ids(xml) # {}
    => pc = "failed" /\ result = Raise("MalformedProjectError")

(***************************************************************************)
(* C9: the read never fails on what it does not know.                      *)
(***************************************************************************)
\* The blanks and entries the playlists of a tractor hold, in the order the
\* read meets them.
RECURSIVE Met(_, _, _)
Met(doc, subtracks, n) ==
    IF n = 0 THEN <<>>
    ELSE Met(doc, subtracks, n - 1)
         \o SelectSeq(Iter(Carrier(doc, Attr(subtracks[n], "producer"))),
                      LAMBDA k : k.tag \in {"blank", "entry"})

MetInTrack(doc, i) ==
    LET subtracks == Tagged(Carrier(doc, Attr(MainTracks(doc)[i], "producer")),
                            "track")
    IN Met(doc, subtracks, Len(subtracks))

KnownServices == {T("avformat"), T("avformat-novalidate"), T("qimage"), T("color")}

\* The effect table: the name of the effect of a filter's kdenlive_id.
EffectTable ==
    (T("fadein") :> "audio_fade_in") @@ (T("fadeout") :> "audio_fade_out")
    @@ (T("fade_from_black") :> "video_fade_in")
    @@ (T("fade_to_black") :> "video_fade_out")
    @@ (T("volume") :> "volume") @@ (T("brightness") :> "brightness")

\* The names of the effects the filters of an entry give, in order.
EffectNames(entry) ==
    LET known == SelectSeq(Tagged(entry, "filter"),
                           LAMBDA f : mlt_property(f, "kdenlive_id")
                                          \in DOMAIN EffectTable)
    IN [j \in 1..Len(known) |-> EffectTable[mlt_property(known[j], "kdenlive_id")]]

Wipes(doc) ==
    SelectSeq(Tagged(GlobalFeed(doc), "transition"),
              LAMBDA k : mlt_property(k, "kdenlive_id") = T("wipe"))

\* C9 as the spec states it: a document with a profile, a main tractor and
\* ids that all resolve is read to a Timeline (but for a wipe that names no
\* track); an entry whose producer has none of the four known services gives
\* a clip with a missing reference in its place in the track, the filters of
\* an entry give the effects of the table in their order and no other, and
\* without a wipe no track holds a transition.
C9_NeverFailsOnUnknown ==
    /\ HasProfile(xml)
    /\ HasGlobalFeed(xml)
    /\ NamedAnywhere(xml) \ (Ids(xml) \cup {T("black_track")}) = {}
    => /\ pc = "failed" => result = Raise("IndexError")
       /\ pc \in {"tracks", "read"} =>
             /\ Len(result.tracks) = Len(MainTracks(xml))
             /\ \A i \in 1..Len(result.tracks) :
                   LET met == MetInTrack(xml, i)
                       items == TimedItems(result.tracks[i])
                   IN /\ Len(items) = Len(met)
                      /\ \A j \in 1..Len(met) :
                            met[j].tag = "entry" =>
                               /\ items[j].type = "Clip"
                               /\ mlt_property(Carrier(xml, Attr(met[j], "producer")),
                                               "mlt_service") \notin KnownServices
                                  => items[j].media_reference = MissingReference
                               /\ [k \in 1..Len(items[j].effects) |->
                                      items[j].effects[k].effect_name]
                                      = EffectNames(met[j])
                      /\ Wipes(xml) = <<>> => items = result.tracks[i].items

(***************************************************************************)
(* C10: the wipes of the main tractor.                                     *)
(***************************************************************************)
\* b_track of a transition, a number in the documents read.
BTrack(transition) == IntOf(mlt_property(transition, "b_track"))

\* The Transition a wipe gives.
Dissolve(transition, rate) ==
    Transition("SMPTE_Dissolve",
               time(Attr(transition, "in"), rate),
               time(Attr(transition, "out"), rate))

\* The tracks after the wipes: track i gets, in order, one Transition for
\* each wipe that Place sends to i.
WithWipes(tracks, wipes, rate, Place(_)) ==
    [i \in 1..Len(tracks) |->
        [tracks[i] EXCEPT !.items =
            @ \o LET mine == SelectSeq(wipes, LAMBDA w : Place(BTrack(w)) = i)
                 IN [j \in 1..Len(mine) |-> Dissolve(mine[j], rate)]]]

\* C10 as amended: once the n tracks are built, each wipe of the main
\* tractor with b_track k from 1 to n appends one SMPTE-dissolve Transition,
\* with the offsets its in and out spell, to the k-th track and changes no
\* other; a wipe with b_track 0 appends it to the last track; with a wipe
\* whose b_track is above n, or 0 when there is no track, the read is left
\* with an IndexError; the other transitions change no track.
C10_WipeGoesToTrack ==
    [][pc = "tracks" =>
          LET n == Len(result.tracks)
              Place(k) == IF k = 0 THEN n ELSE k
          IN IF \E j \in 1..Len(Wipes(xml)) : Place(BTrack(Wipes(xml)[j])) \notin 1..n
             THEN pc' = "failed" /\ result' = Raise("IndexError")
             ELSE /\ pc' = "read"
                  /\ result'.name = result.name
                  /\ result'.tracks = WithWipes(result.tracks, Wipes(xml), fps, Place)
      ]_vars

\* Two tracks and one wipe with b_track 2: the second track ends with the
\* Transition, the first holds none.
C10_Witness ==
    /\ pc = "read"
    /\ Len(result.tracks) = 2
    /\ Len(Wipes(xml)) = 1
    /\ BTrack(Wipes(xml)[1]) = 2
    /\ Len(Tagged(GlobalFeed(xml), "transition")) = 2
    /\ result.tracks[1].items = <<>>
    /\ result.tracks[2].items =
          <<Gap(RationalTime(5000, Rate(25, 1))),
            Transition("SMPTE_Dissolve", RationalTime(10000, Rate(25, 1)),
                       RationalTime(25000, Rate(25, 1)))>>

\* C10 as the spec states it: every wipe with b_track k appends its
\* Transition to the k-th track, counted from 1.
C10_Original ==
    [][pc = "tracks" =>
          /\ pc' = "read"
          /\ \A j \in 1..Len(Wipes(xml)) :
                BTrack(Wipes(xml)[j]) \in 1..Len(result.tracks)
          /\ result'.tracks = WithWipes(result.tracks, Wipes(xml), fps, LAMBDA k : k)
      ]_vars

====
